---------------------------- MODULE Spec2Model ----------------------------
(***************************************************************************)
(* A model of cargo-udeps (src/src/lib.rs): the dependency name tables,    *)
(* the executor callback that records compiler invocations, the argument   *)
(* parser cmd_info, the usage matcher and the outcome aggregator.          *)
(*                                                                         *)
(* Strings on which the program performs a character-level operation       *)
(* (library names: replace('-', "_"); arguments: split("=")) are sequences *)
(* of pieces, the separators being pieces of their own.  Other strings are *)
(* TLA+ strings.                                                           *)
(***************************************************************************)
EXTENDS Integers, Sequences, FiniteSets, TLC

VARIABLES
    graph,                 \* the resolved dependency edges (resolver input)
    pc,                    \* position of OptUdeps::run
    dependency_names,      \* lib.rs:284  member -> DependencyNames
    warnings,              \* ambiguity warnings sent to the shell, per member
    relevant_cmd_infos,    \* lib.rs:448  ExecData.relevant_cmd_infos
    files,                 \* save-analysis files on disk, by path
    next_cmd,              \* index of the next record the matcher loop reads
    used_normal_dev_dependencies,   \* lib.rs:298
    used_build_dependencies,        \* lib.rs:299
    normal_dependencies,            \* lib.rs:300
    dev_dependencies,               \* lib.rs:304
    build_dependencies,             \* lib.rs:308
    metadata,              \* package.metadata of each member, as read
    opt,                   \* the target-selection flags of OptUdeps, as read
    outcome,               \* lib.rs:361  the Outcome
    printed,               \* what Outcome::print wrote to stdout
    ret,                   \* what OptUdeps::run returned
    units,                 \* compilation units the job queue runs
    upc,                   \* position of each unit's Executor::exec call
    cmd_info_of,           \* each callback's local cmd_info
    mutex,                 \* holder of the Mutex<ExecData> (0: free, -1: run)
    stderr_lines,          \* warnings the callbacks wrote with on_stderr_line
    vec_len,               \* each callback's local copy made inside Vec::push
    args,                  \* argument list handed to cmd_info
    parsed                 \* result of cmd_info on args

vars == <<graph, pc, dependency_names, warnings, relevant_cmd_infos, files,
          next_cmd, used_normal_dev_dependencies, used_build_dependencies,
          normal_dependencies, dev_dependencies, build_dependencies,
          metadata, opt, outcome, printed, ret, units, upc, cmd_info_of, mutex,
          stderr_lines, vec_len, args, parsed>>

-----------------------------------------------------------------------------
(* Bounds of the model.                                                    *)
MaxEdges == 2
MaxRecords == 2
MaxArgs == 6
MaxUnits == 2

-----------------------------------------------------------------------------
(* dependency::Kind and the packages of the modelled workspace.            *)
Normal == "Normal"
Development == "Development"
Build == "Build"
Kinds == {Normal, Development, Build}

\* ws.members(): the packages that get a DependencyNames entry.
Members == {"app", "tool"}
\* Packages whose source_id().is_path(): the members and a path dependency
\* that is not a workspace member.
PathPackages == Members \cup {"vendored"}

\* Library target names of the dependency packages (to_lib.name()); the empty
\* name for a package with no lib target.
LibTargetName(pkg) ==
    CASE pkg = "left-pad"   -> <<"left", "-", "pad">>
      [] pkg = "leftpad-rs" -> <<"left", "_", "pad">>
      [] pkg = "left_pad"   -> <<"left", "_", "pad">>
      [] OTHER              -> << >>

HasLib(pkg) == LibTargetName(pkg) # << >>

\* resolve.extern_crate_name(from, to, to_lib): the name rustc gets after
\* --extern for the dependency: the declared name of a renamed dependency
\* (leftpad-rs, declared as lp-fork), else the crate name of the lib target,
\* which the packages left-pad and left_pad have in common.
ExternCrateName(pkg) ==
    CASE pkg = "left-pad"   -> <<"left_pad">>
      [] pkg = "leftpad-rs" -> <<"lp_fork">>
      [] pkg = "left_pad"   -> <<"left_pad">>
      [] OTHER              -> << >>

\* str::replace('-', "_") on a name given as a sequence of pieces.
ReplaceDash(name) ==
    [i \in DOMAIN name |-> IF name[i] = "-" THEN "_" ELSE name[i]]

\* The dependency edges a manifest of the workspace may declare:
\* (from, to, kind, name_in_toml).
EdgeUniverse ==
    LET decl == { <<"left-pad", "left-pad">>, <<"leftpad-rs", "lp-fork">>,
                  <<"left_pad", "left_pad">>,
                  <<"cc-helper", "cc-helper">>, <<"cc-helper", "left-pad">> }
    IN  { [from |-> "app", to |-> d[1], kind |-> k, name_in_toml |-> d[2]] :
              d \in decl, k \in Kinds }
        \cup
        { [from |-> "tool", to |-> "cc-helper", kind |-> Build,
           name_in_toml |-> "cc-helper"],
          [from |-> "tool", to |-> "left-pad", kind |-> Normal,
           name_in_toml |-> "left-pad"] }

\* A package is declared under one name by each dependent, and within one
\* kind a declared name designates one package.
WellFormed(g) ==
    \A e1, e2 \in g :
        /\ (e1.from = e2.from /\ e1.to = e2.to) => e1.name_in_toml = e2.name_in_toml
        /\ (e1.from = e2.from /\ e1.kind = e2.kind /\ e1.name_in_toml = e2.name_in_toml)
              => e1.to = e2.to

Graphs == { g \in SUBSET EdgeUniverse : Cardinality(g) <= MaxEdges /\ WellFormed(g) }

NamesInToml == { e.name_in_toml : e \in EdgeUniverse }
DependencyPackages == { e.to : e \in EdgeUniverse }
\* The orders in which resolve.deps(from) can yield the packages.
DepsOrders ==
    { o \in [1..Cardinality(DependencyPackages) -> DependencyPackages] :
        \A i, j \in DOMAIN o : o[i] = o[j] => i = j }
Position(order, pkg) == CHOOSE i \in DOMAIN order : order[i] = pkg
LibNames == { ReplaceDash(LibTargetName(e.to)) : e \in { x \in EdgeUniverse : HasLib(x.to) } }

-----------------------------------------------------------------------------
(* DependencyNames::new, lib.rs:646-733.                                   *)

\* resolve.deps(from), flattened to the Dependency objects of one kind.
Deps(g, from, kind) == { e \in g : e.from = from /\ e.kind = kind }

\* lib.rs:668
lib_true_snakecased_name(to_pkg) == ReplaceDash(LibTargetName(to_pkg))

\* lib.rs:672: by_extern_crate_name.insert(extern_crate_name, name_in_toml)
\* A later insert under the same key replaces the earlier one.
by_extern_crate_name(g, from, kind, order) ==
    LET es == { e \in Deps(g, from, kind) : HasLib(e.to) }
    IN  [a \in { ExternCrateName(e.to) : e \in es } |->
            (CHOOSE e \in es :
                /\ ExternCrateName(e.to) = a
                /\ \A x \in es : ExternCrateName(x.to) = a
                       => Position(order, x.to) <= Position(order, e.to)).name_in_toml]

\* lib.rs:675-679: by_lib_true_snakecased_name.entry(..).or_insert_with(..).insert(..)
by_lib_true_snakecased_name(g, from, kind) ==
    LET es == { e \in Deps(g, from, kind) : HasLib(e.to) }
    IN  [l \in { lib_true_snakecased_name(e.to) : e \in es } |->
            { e.name_in_toml :
                e \in { x \in es : lib_true_snakecased_name(x.to) = l } }]

\* lib.rs:681-685
non_lib(g, from, kind) ==
    { e.name_in_toml : e \in { x \in Deps(g, from, kind) : ~HasLib(x.to) } }

\* lib.rs:764-769 DependencyNamesValue, one per kind (lib.rs:639-644)
DependencyNamesNew(g, from, order) ==
    [k \in Kinds |->
        [by_extern_crate_name        |-> by_extern_crate_name(g, from, k, order),
         by_lib_true_snakecased_name |-> by_lib_true_snakecased_name(g, from, k),
         non_lib                     |-> non_lib(g, from, k)]]

\* lib.rs:688-695: the BTreeMap name_in_toml -> lib name of the entries with
\* more than one name, the kinds taken in order (a later kind's entry replaces
\* an earlier one's under the same key).
ambiguous_names(this, kinds) ==
    LET hit(i) == { <<v, l>> \in NamesInToml \X DOMAIN this[kinds[i]].by_lib_true_snakecased_name :
                       /\ Cardinality(this[kinds[i]].by_lib_true_snakecased_name[l]) > 1
                       /\ v \in this[kinds[i]].by_lib_true_snakecased_name[l] }
        keys == { p[1] : p \in UNION { hit(i) : i \in DOMAIN kinds } }
        last(v) == CHOOSE i \in DOMAIN kinds :
                      /\ \E p \in hit(i) : p[1] = v
                      /\ \A j \in DOMAIN kinds : (\E p \in hit(j) : p[1] = v) => j <= i
    IN  [v \in keys |-> (CHOOSE p \in hit(last(v)) : p[1] = v)[2]]

\* lib.rs:697-730: the warning sent to the shell (emitted) and what it lists.
AmbiguityWarning(this) ==
    LET ambiguous_normal_dev == ambiguous_names(this, <<Normal, Development>>)
        ambiguous_build == ambiguous_names(this, <<Build>>)
    IN  [emitted    |-> ~(DOMAIN ambiguous_normal_dev = {} /\ DOMAIN ambiguous_build = {}),
         normal_dev |-> ambiguous_normal_dev,
         build      |-> ambiguous_build]

\* lib.rs:735-739
has_non_lib(this) == \E k \in Kinds : this[k].non_lib # {}

-----------------------------------------------------------------------------
(* cmd_info, lib.rs:562-637.  An argument is a sequence of pieces, "=" being *)
(* a piece of its own; an Option is a sequence of length at most one.       *)

Arg(str) == <<str>>
KeyValue(k, v) == <<k, "=", v>>
\* An OsString that is not valid UTF-8: to_str() returns None on it.
NonUtf8 == <<"\\xff">>
IsUtf8(a) == \A i \in DOMAIN a : a[i] # "\\xff"

\* str::split("="), as the sequence of the segments between the "=" pieces.
RECURSIVE Split(_)
Split(a) ==
    IF \A i \in DOMAIN a : a[i] # "="
    THEN <<a>>
    ELSE LET i == CHOOSE j \in DOMAIN a :
                     a[j] = "=" /\ \A h \in 1..(j - 1) : a[h] # "="
         IN  <<SubSeq(a, 1, i - 1)>> \o Split(SubSeq(a, i + 1, Len(a)))

\* lib.rs:564-569: the parser's locals before the loop.
CmdInfoStart ==
    [crate_name |-> << >>, crate_type |-> << >>, extra_filename |-> << >>,
     cap_lints_allow |-> FALSE, out_dir |-> << >>, externs |-> << >>,
     panicked |-> FALSE]

\* lib.rs:570-620: the loop from argument i on; st holds the locals.
RECURSIVE CmdInfoLoop(_, _, _)
CmdInfoLoop(as, i, st) ==
    IF i > Len(as) \/ st.panicked THEN st
    ELSE
      LET v == as[i]
          has_next == i + 1 <= Len(as)
          nx == IF has_next THEN as[i + 1] ELSE << >>
          flag == v \in { Arg("--extern"), Arg("--crate-name"), Arg("--crate-type"),
                          Arg("--cap-lints"), Arg("--out-dir"), Arg("-C") }
          step == IF flag /\ has_next THEN 2 ELSE 1
          st2 ==
            IF ~(flag /\ has_next) THEN st
            ELSE IF v = Arg("--cap-lints")
                 THEN [st EXCEPT !.cap_lints_allow = (nx = Arg("allow")) \/ @]
            ELSE IF ~IsUtf8(nx) THEN [st EXCEPT !.panicked = TRUE]
            ELSE IF v = Arg("--extern")
                 THEN IF Len(Split(nx)) >= 2
                      THEN [st EXCEPT !.externs =
                               Append(@, <<Split(nx)[1], Split(nx)[2]>>)]
                      ELSE [st EXCEPT !.panicked = TRUE]
            ELSE IF v = Arg("--crate-name") THEN [st EXCEPT !.crate_name = <<nx>>]
            ELSE IF v = Arg("--crate-type") THEN [st EXCEPT !.crate_type = <<nx>>]
            ELSE IF v = Arg("--out-dir") THEN [st EXCEPT !.out_dir = <<nx>>]
            ELSE \* "-C"
                 IF Len(Split(nx)) >= 2 /\ Split(nx)[1] = <<"extra-filename">>
                 THEN [st EXCEPT !.extra_filename = <<Split(nx)[2]>>]
                 ELSE st
      IN  CmdInfoLoop(as, i + step, st2)

\* Mutant: a missing --crate-type is an error too.
cmd_info_crate_type_needed(id, custom_build, as) ==
    LET st == CmdInfoLoop(as, 1, CmdInfoStart)
        blank == [pkg |-> id, custom_build |-> custom_build, crate_name |-> << >>,
                  crate_type |-> << >>, extra_filename |-> << >>,
                  cap_lints_allow |-> FALSE, out_dir |-> << >>, externs |-> << >>]
    IN  IF st.panicked
        THEN [tag |-> "Panic", msg |-> "invalid argument", info |-> blank]
        ELSE IF st.crate_name = << >>
        THEN [tag |-> "Err", msg |-> "crate name needed", info |-> blank]
        ELSE IF st.crate_type = << >>
        THEN [tag |-> "Err", msg |-> "crate type needed", info |-> blank]
        ELSE IF st.extra_filename = << >>
        THEN [tag |-> "Err", msg |-> "extra-filename needed", info |-> blank]
        ELSE IF st.out_dir = << >>
        THEN [tag |-> "Err", msg |-> "outdir needed", info |-> blank]
        ELSE [tag |-> "Ok", msg |-> "",
              info |-> [pkg |-> id, custom_build |-> custom_build,
                        crate_name |-> st.crate_name[1],
                        crate_type |-> st.crate_type[1],
                        extra_filename |-> st.extra_filename[1],
                        cap_lints_allow |-> st.cap_lints_allow,
                        out_dir |-> st.out_dir[1],
                        externs |-> st.externs]]

\* lib.rs:562-637: Ok(CmdInfo), Err(message) or a panic.
cmd_info(id, custom_build, as) ==
    LET st == CmdInfoLoop(as, 1, CmdInfoStart)
        blank == [pkg |-> id, custom_build |-> custom_build, crate_name |-> << >>,
                  crate_type |-> << >>, extra_filename |-> << >>,
                  cap_lints_allow |-> FALSE, out_dir |-> << >>, externs |-> << >>]
    IN  IF st.panicked
        THEN [tag |-> "Panic", msg |-> "invalid argument", info |-> blank]
        ELSE IF st.crate_name = << >>
        THEN [tag |-> "Err", msg |-> "crate name needed", info |-> blank]
        ELSE IF st.extra_filename = << >>
        THEN [tag |-> "Err", msg |-> "extra-filename needed", info |-> blank]
        ELSE IF st.out_dir = << >>
        THEN [tag |-> "Err", msg |-> "outdir needed", info |-> blank]
        ELSE [tag |-> "Ok", msg |-> "",
              info |-> [pkg |-> id, custom_build |-> custom_build,
                        crate_name |-> st.crate_name[1],
                        crate_type |-> IF st.crate_type = << >> THEN Arg("bin")
                                       ELSE st.crate_type[1],
                        extra_filename |-> st.extra_filename[1],
                        cap_lints_allow |-> st.cap_lints_allow,
                        out_dir |-> st.out_dir[1],
                        externs |-> st.externs]]

\* lib.rs:540-552
get_save_analysis_path(cmd) ==
    LET maybe_lib == IF (Len(cmd.crate_type) > 0
                           /\ cmd.crate_type[Len(cmd.crate_type)] = "lib")
                        \/ cmd.crate_type = Arg("proc-macro")
                     THEN "lib" ELSE ""
    IN  <<cmd.out_dir, "save-analysis", maybe_lib, cmd.crate_name,
          cmd.extra_filename, ".json">>

-----------------------------------------------------------------------------
(* The compiler invocations cargo makes for the path packages, and the      *)
(* save-analysis files rustc leaves behind.                                 *)

RECURSIVE ExternArgs(_)
ExternArgs(aliases) ==
    IF aliases = << >> THEN << >>
    ELSE <<Arg("--extern"), KeyValue(Head(aliases), "/deps/lib.rmeta")>>
         \o ExternArgs(Tail(aliases))

RustcArgs(crate_name, crate_type, extra, aliases, cap_lints) ==
    <<Arg("--crate-name"), Arg(crate_name), Arg("--crate-type")>> \o <<crate_type>>
    \o <<Arg("-C"), KeyValue("extra-filename", extra),
         Arg("--out-dir"), Arg("/target/debug/deps")>>
    \o ExternArgs(aliases)
    \o (IF cap_lints THEN <<Arg("--cap-lints"), Arg("allow")>> ELSE << >>)

\* The --extern aliases a unit of each path package may be given.
UnitExterns(pkg) ==
    CASE pkg = "app"  -> { <<"app">>, <<"app", "left_pad">>, <<"app", "lp_fork">>,
                           <<"app", "left_pad", "lp_fork">> }
      [] pkg = "tool" -> { << >>, <<"left_pad">> }
      [] OTHER        -> { << >> }

UnitCrateType(pkg) == IF pkg = "app" THEN Arg("bin") ELSE <<"r", "lib">>

\* The CmdInfo the executor records for a unit of a path package.
RecordOf(pkg, aliases) ==
    cmd_info(pkg, FALSE,
             RustcArgs(pkg, UnitCrateType(pkg), "-0123abcd", aliases, FALSE)).info

RecordUniverse ==
    UNION { { RecordOf(p, a) : a \in UnitExterns(p) } : p \in PathPackages }

RECURSIVE SeqsUpTo(_, _)
SeqsUpTo(S, n) ==
    IF n = 0 THEN { << >> }
    ELSE LET shorter == SeqsUpTo(S, n - 1)
         IN  shorter \cup { Append(q, x) : q \in { r \in shorter : Len(r) = n - 1 }, x \in S }

\* Record lists of at most MaxRecords units, each unit compiled once.
RecordLists ==
    { q \in SeqsUpTo(RecordUniverse, MaxRecords) :
        \A i, j \in DOMAIN q : i # j => q[i].pkg # q[j].pkg }

\* A save-analysis file: absent, not JSON, or an analysis naming the external
\* crates of the unit (analysis.prelude.external_crates[..].id.name).
Missing == [exists |-> FALSE, valid |-> FALSE, external_crates |-> {}]
Garbage == [exists |-> TRUE, valid |-> FALSE, external_crates |-> {}]
Analysis(crates) == [exists |-> TRUE, valid |-> TRUE, external_crates |-> crates]
FileContents ==
    { Missing, Garbage, Analysis({<<"std">>}),
      Analysis({<<"std">>, <<"left", "_", "pad">>}) }

FileSystems(records) ==
    [ { get_save_analysis_path(records[i]) : i \in DOMAIN records } -> FileContents ]

\* package.metadata of the members: absent, a cargo-udeps table of the wrong
\* shape, or an ignore table.
NoIgnore == [k \in Kinds |-> {}]
NoMetadata == [present |-> FALSE, parses |-> TRUE, ignore |-> NoIgnore]
BadMetadata == [present |-> TRUE, parses |-> FALSE, ignore |-> NoIgnore]
IgnoreOne(kind, name) ==
    [present |-> TRUE, parses |-> TRUE,
     ignore |-> [k \in Kinds |-> IF k = kind THEN {name} ELSE {}]]
IgnorableNames == {"left-pad", "cc-helper"}
MetadataOfOne ==
    {NoMetadata, BadMetadata} \cup { IgnoreOne(k, n) : k \in Kinds, n \in IgnorableNames }
MetadataChoices ==
    { md \in [Members -> MetadataOfOne] :
        Cardinality({ m \in Members : md[m] # NoMetadata }) <= 1 }

\* The flags of OptUdeps the note depends on (lib.rs:411-423): --all-targets,
\* and, read only without it, whether any of --lib/--bins/--bin/... is given.
DefaultOptions == [all_targets |-> FALSE, target_filter |-> FALSE]
Options ==
    { o \in [all_targets : BOOLEAN, target_filter : BOOLEAN] :
        o.all_targets => ~o.target_filter }

-----------------------------------------------------------------------------
(* The usage matcher, lib.rs:298-359.                                      *)

\* Mutant: every declared name is a candidate from the start.
InitialDependenciesAllDeclared(names, kind) ==
    { p \in Members \X NamesInToml :
        \/ p[2] \in names[p[1]][kind].non_lib
        \/ \E l \in DOMAIN names[p[1]][kind].by_lib_true_snakecased_name :
              p[2] \in names[p[1]][kind].by_lib_true_snakecased_name[l] }

\* Mutant: the declared sets start empty.
InitialDependenciesNone(names, kind) == {}

\* lib.rs:300-311: the declared sets start as the non-library dependencies.
InitialDependencies(names, kind) ==
    { p \in Members \X NamesInToml : p[2] \in names[p[1]][kind].non_lib }

\* Mutant: one of the names under a library name is marked, not all.
UsedByAnalysisFirstOnly(by_lib, cmd, analysis) ==
    { <<cmd.pkg, CHOOSE d \in by_lib[ext] : TRUE>> :
          ext \in analysis.external_crates \cap DOMAIN by_lib }

\* lib.rs:323-329: every name under a library name the analysis lists.
UsedByAnalysis(by_lib, cmd, analysis) ==
    { <<cmd.pkg, d>> : d \in UNION { by_lib[ext] :
          ext \in analysis.external_crates \cap DOMAIN by_lib } }

\* lib.rs:331-337: the names whose alias the invocation passed with --extern.
DeclaredByExterns(by_extern, cmd) ==
    { <<cmd.pkg, by_extern[cmd.externs[i][1]]>> :
          i \in { j \in DOMAIN cmd.externs : cmd.externs[j][1] \in DOMAIN by_extern } }

\* Mutant: an --extern alias marks the dependency used.
collect_names_alias_used(by_extern, by_lib, used_dependencies, dependencies, cmd, analysis) ==
    [used_dependencies |-> used_dependencies \cup UsedByAnalysis(by_lib, cmd, analysis)
                              \cup DeclaredByExterns(by_extern, cmd),
     dependencies      |-> dependencies]

\* Mutant: the used set is replaced by the evidence of this invocation
\* instead of growing by it.
collect_names_overwrite(by_extern, by_lib, used_dependencies, dependencies, cmd, analysis) ==
    [used_dependencies |-> UsedByAnalysis(by_lib, cmd, analysis),
     dependencies      |-> dependencies \cup DeclaredByExterns(by_extern, cmd)]

\* lib.rs:317-338: the closure collect_names
collect_names(by_extern, by_lib, used_dependencies, dependencies, cmd, analysis) ==
    [used_dependencies |-> used_dependencies \cup UsedByAnalysis(by_lib, cmd, analysis),
     dependencies      |-> dependencies \cup DeclaredByExterns(by_extern, cmd)]

\* lib.rs:553-559: Ok(analysis) iff the file can be read and parsed.
get_save_analysis(fs, cmd) == fs[get_save_analysis_path(cmd)]
\* Mutant: a file that does not parse counts as an empty analysis.
SaveAnalysisLenient(file) == file.exists
SaveAnalysisOk(file) == file.exists /\ file.valid

-----------------------------------------------------------------------------
(* The outcome aggregator, lib.rs:361-438.                                 *)

\* lib.rs:363-367: the (dependencies, used_dependencies) pair of each kind.
DependenciesOf(kind) ==
    CASE kind = Normal      -> normal_dependencies
      [] kind = Development -> dev_dependencies
      [] kind = Build       -> build_dependencies
\* Mutant: Development is paired with the used set of Build.
UsedDependenciesOfDevWithBuild(kind) ==
    CASE kind = Normal      -> used_normal_dev_dependencies
      [] kind = Development -> used_build_dependencies
      [] kind = Build       -> used_build_dependencies
UsedDependenciesOf(kind) ==
    CASE kind = Normal      -> used_normal_dev_dependencies
      [] kind = Development -> used_normal_dev_dependencies
      [] kind = Build       -> used_build_dependencies

\* Mutant: the kind is not looked at.
contains_any_kind(md, id, kind, name_in_toml) ==
    md[id].present /\ \E k \in Kinds : name_in_toml \in md[id].ignore[k]

\* lib.rs:794-803 behind lib.rs:392: ignore.map_or(false, |i| i.contains(kind, dep))
contains(md, id, kind, name_in_toml) ==
    md[id].present /\ name_in_toml \in md[id].ignore[kind]

\* Mutant: the metadata of every member is parsed, declared entries or not.
MetadataErrorEager(md) ==
    \E m \in Members : md[m].present /\ ~md[m].parses

\* lib.rs:369-383: the metadata of a package with a declared entry fails to parse.
MetadataError(md) ==
    \E k \in Kinds : \E p \in DependenciesOf(k) : md[p[1]].present /\ ~md[p[1]].parses

\* lib.rs:385: the entries not marked used.
Candidates(kind) == DependenciesOf(kind) \ UsedDependenciesOf(kind)

\* lib.rs:386-396: the set of one package and kind.
UnusedDeps(md, id, kind) ==
    { p[2] : p \in { q \in Candidates(kind) :
                         q[1] = id /\ ~contains(md, id, kind, q[2]) } }

\* lib.rs:879-892 OutcomeUnusedDeps, filled by lib.rs:386-396
OutcomeUnusedDepsOf(md, id) ==
    [manifest_path |-> <<id, "Cargo.toml">>,
     normal        |-> UnusedDeps(md, id, Normal),
     development   |-> UnusedDeps(md, id, Development),
     build         |-> UnusedDeps(md, id, Build)]

\* lib.rs:894-900
unused_deps_of(entry, kind) ==
    CASE kind = Normal      -> entry.normal
      [] kind = Development -> entry.development
      [] kind = Build       -> entry.build

\* Mutant: only the normal sets are looked at.
SuccessNormalOnly(unused_deps) ==
    \A id \in DOMAIN unused_deps : unused_deps[id].normal = {}

\* lib.rs:401-406
Success(unused_deps) ==
    \A id \in DOMAIN unused_deps :
        /\ unused_deps[id].normal = {}
        /\ unused_deps[id].development = {}
        /\ unused_deps[id].build = {}

\* Mutant: the same text, with every paragraph, on every failure.
NoteFixed(success, o, names) ==
    IF success THEN << >>
    ELSE <<"other targets", "enable --all-targets", "non-library packages",
           "false-positive, doc-tests, ignore">>

\* lib.rs:408-438: the note, as the sequence of its paragraphs; empty for None.
Note(success, o, names) ==
    IF success THEN << >>
    ELSE (IF ~o.all_targets
          THEN <<"other targets">> \o
               (IF ~o.target_filter THEN <<"enable --all-targets">> ELSE << >>)
          ELSE << >>)
         \o (IF \E m \in DOMAIN names : has_non_lib(names[m])
             THEN <<"non-library packages">> ELSE << >>)
         \o <<"false-positive, doc-tests, ignore">>

\* lib.rs:361-438
BuildOutcome(md, o) ==
    LET entries == { id \in Members : \E k \in Kinds : \E p \in Candidates(k) : p[1] = id }
        unused_deps == [id \in entries |-> OutcomeUnusedDepsOf(md, id)]
    IN  [built       |-> TRUE,
         success     |-> Success(unused_deps),
         unused_deps |-> unused_deps,
         note        |-> Note(Success(unused_deps), o, dependency_names)]

\* lib.rs:805-810 Outcome::default()
DefaultOutcome ==
    [built |-> FALSE, success |-> FALSE, unused_deps |-> << >>, note |-> << >>]

-----------------------------------------------------------------------------
(* OptUdeps::run, lib.rs:221-443, and run, lib.rs:32-41.                   *)

execVars == <<units, upc, cmd_info_of, mutex, stderr_lines, vec_len>>
parseVars == <<args, parsed>>
accVars == <<used_normal_dev_dependencies, used_build_dependencies,
             normal_dependencies, dev_dependencies, build_dependencies>>

\* The executor and parser variables when no build is being followed.
ExecIdle ==
    /\ units = << >>
    /\ upc = << >>
    /\ cmd_info_of = << >>
    /\ mutex = 0
    /\ stderr_lines = {}
    /\ vec_len = << >>
ParseIdle ==
    /\ args = << >>
    /\ parsed = [cmd_info("app", FALSE, << >>) EXCEPT !.tag = "None"]

RunStart ==
    /\ dependency_names = [m \in Members |-> DependencyNamesNew({}, m, << >>)]
    /\ warnings = [m \in Members |-> AmbiguityWarning(DependencyNamesNew({}, m, << >>))]
    /\ relevant_cmd_infos = << >>
    /\ files = << >>
    /\ next_cmd = 1
    /\ used_normal_dev_dependencies = {}
    /\ used_build_dependencies = {}
    /\ normal_dependencies = {}
    /\ dev_dependencies = {}
    /\ build_dependencies = {}
    /\ metadata = [m \in Members |-> NoMetadata]
    /\ opt = DefaultOptions
    /\ outcome = DefaultOutcome
    /\ printed = "no"
    /\ ret = "running"

Init ==
    /\ graph \in Graphs
    /\ pc = "names"
    /\ RunStart
    /\ ExecIdle
    /\ ParseIdle

\* lib.rs:284-291: one DependencyNames per workspace member.
BuildNames ==
    /\ pc = "names"
    /\ \E order \in DepsOrders :
          /\ dependency_names' = [m \in Members |-> DependencyNamesNew(graph, m, order)]
          /\ warnings' = [m \in Members |->
                             AmbiguityWarning(DependencyNamesNew(graph, m, order))]
    /\ pc' = "compile"
    /\ UNCHANGED <<graph, relevant_cmd_infos, files, next_cmd, accVars, metadata,
                   opt, outcome, printed, ret, execVars, parseVars>>

\* lib.rs:293-311: compile_with_exec returns with the records made by the
\* executor (followed callback by callback in SpecExec) and the files rustc
\* wrote; the accumulators are set up.
Compile ==
    /\ pc = "compile"
    /\ \E recs \in RecordLists : \E fs \in FileSystems(recs) :
          /\ relevant_cmd_infos' = recs
          /\ files' = fs
    /\ used_normal_dev_dependencies' = {}
    /\ used_build_dependencies' = {}
    /\ normal_dependencies' = InitialDependencies(dependency_names, Normal)
    /\ dev_dependencies' = InitialDependencies(dependency_names, Development)
    /\ build_dependencies' = InitialDependencies(dependency_names, Build)
    /\ next_cmd' = 1
    /\ pc' = "match"
    /\ UNCHANGED <<graph, dependency_names, warnings, metadata, opt, outcome,
                   printed, ret, execVars, parseVars>>

\* lib.rs:295: compile_with_exec(..)? fails (a unit does not compile).
CompileFail ==
    /\ pc = "compile"
    /\ pc' = "error"
    /\ ret' = "Err"
    /\ UNCHANGED <<graph, dependency_names, warnings, relevant_cmd_infos, files,
                   next_cmd, accVars, metadata, opt, outcome, printed,
                   execVars, parseVars>>

\* The five accumulators of lib.rs:298-311 as one value.
Accumulators ==
    [used_normal_dev_dependencies |-> used_normal_dev_dependencies,
     used_build_dependencies      |-> used_build_dependencies,
     normal_dependencies          |-> normal_dependencies,
     dev_dependencies             |-> dev_dependencies,
     build_dependencies           |-> build_dependencies]

\* lib.rs:316-358: the body of the loop for a record whose analysis was
\* loaded: nothing for a package that is not a member, else the three calls
\* of collect_names, Normal and Development on the same used set.
MatchOne(all_names, acc, cmd, analysis) ==
    IF cmd.pkg \in DOMAIN all_names
    THEN LET names == all_names[cmd.pkg]
             n == collect_names(
                    names[Normal].by_extern_crate_name,
                    names[Normal].by_lib_true_snakecased_name,
                    acc.used_normal_dev_dependencies,
                    acc.normal_dependencies, cmd, analysis)
             d == collect_names(
                    names[Development].by_extern_crate_name,
                    names[Development].by_lib_true_snakecased_name,
                    n.used_dependencies,
                    acc.dev_dependencies, cmd, analysis)
             b == collect_names(
                    names[Build].by_extern_crate_name,
                    names[Build].by_lib_true_snakecased_name,
                    acc.used_build_dependencies,
                    acc.build_dependencies, cmd, analysis)
         IN  [used_normal_dev_dependencies |-> d.used_dependencies,
              used_build_dependencies      |-> b.used_dependencies,
              normal_dependencies          |-> n.dependencies,
              dev_dependencies             |-> d.dependencies,
              build_dependencies           |-> b.dependencies]
    ELSE acc

\* lib.rs:313-359: one iteration of the loop over relevant_cmd_infos.
MatchStep ==
    /\ pc = "match"
    /\ next_cmd <= Len(relevant_cmd_infos)
    /\ LET cmd == relevant_cmd_infos[next_cmd]
           analysis == get_save_analysis(files, cmd)
       IN  IF ~SaveAnalysisOk(analysis)
           THEN /\ pc' = "error"
                /\ ret' = "Err"
                /\ UNCHANGED <<next_cmd, accVars>>
           ELSE /\ LET acc == MatchOne(dependency_names, Accumulators, cmd, analysis)
                   IN  /\ used_normal_dev_dependencies' = acc.used_normal_dev_dependencies
                       /\ used_build_dependencies' = acc.used_build_dependencies
                       /\ normal_dependencies' = acc.normal_dependencies
                       /\ dev_dependencies' = acc.dev_dependencies
                       /\ build_dependencies' = acc.build_dependencies
                /\ next_cmd' = next_cmd + 1
                /\ UNCHANGED <<pc, ret>>
    /\ UNCHANGED <<graph, dependency_names, warnings, relevant_cmd_infos, files,
                   metadata, opt, outcome, printed, execVars, parseVars>>

\* lib.rs:441
ExitCode(success) == IF success THEN "Ok(0)" ELSE "Ok(1)"

\* lib.rs:361-441: the Outcome is built from the accumulators, printed, and
\* its code returned; or reading a package's metadata fails; or writing to
\* stdout fails (the `?` of line 440) and the write error is returned.
Aggregate ==
    /\ pc = "match"
    /\ next_cmd > Len(relevant_cmd_infos)
    /\ \E md \in MetadataChoices : \E o \in Options : \E written \in BOOLEAN :
          /\ metadata' = md
          /\ IF MetadataError(md)
             THEN /\ pc' = "error"
                  /\ ret' = "Err"
                  /\ UNCHANGED <<outcome, opt, printed>>
             ELSE /\ outcome' = BuildOutcome(md, o)
                  \* the flags are read only when a note is written
                  /\ opt' = IF BuildOutcome(md, o).success THEN opt ELSE o
                  /\ printed' = IF written THEN "yes" ELSE "failed"
                  /\ ret' = IF written THEN ExitCode(BuildOutcome(md, o).success)
                                       ELSE "Err"
                  /\ pc' = IF written THEN "done" ELSE "error"
    /\ UNCHANGED <<graph, dependency_names, warnings, relevant_cmd_infos, files,
                   next_cmd, accVars, execVars, parseVars>>

\* lib.rs:37-40: what the process ends with, from what OptUdeps::run returned:
\* Ok(()) for 0, CliError::code(code) for another code, the error otherwise.
ProcessResult(r) ==
    CASE r = "Ok(0)" -> "exit 0"
      [] r = "Ok(1)" -> "exit 1"
      [] r = "Err"   -> "error"
      [] OTHER       -> "running"

Next == BuildNames \/ Compile \/ CompileFail \/ MatchStep \/ Aggregate

Spec == Init /\ [][Next]_vars

-----------------------------------------------------------------------------
(* Exec::exec, lib.rs:480-520, called by cargo's job queue from its worker *)
(* threads, one call per compilation unit.                                 *)

\* The units of a build: registry packages are compiled with --cap-lints
\* allow, path packages without; the last ones carry argument lists cargo
\* does not produce.
UnitUniverse ==
    { [id |-> "app", is_path |-> TRUE, custom_build |-> FALSE,
       args |-> RustcArgs("app", Arg("bin"), "-0123abcd", <<"left_pad">>, FALSE)],
      [id |-> "tool", is_path |-> TRUE, custom_build |-> TRUE,
       args |-> RustcArgs("build_script_build", Arg("bin"), "-89ef", << >>, TRUE)],
      [id |-> "left-pad", is_path |-> FALSE, custom_build |-> FALSE,
       args |-> RustcArgs("left_pad", Arg("lib"), "-4567", << >>, TRUE)],
      [id |-> "cc-helper", is_path |-> FALSE, custom_build |-> FALSE,
       args |-> RustcArgs("cc_helper", Arg("bin"), "-cdef", << >>, FALSE)],
      [id |-> "vendored", is_path |-> TRUE, custom_build |-> FALSE,
       args |-> <<Arg("--crate-name"), Arg("vendored"),
                  Arg("-C"), KeyValue("extra-filename", "-0000")>>],
      [id |-> "app", is_path |-> TRUE, custom_build |-> FALSE,
       args |-> RustcArgs("app", Arg("bin"), "-0123abcd", << >>, FALSE)
                \o <<Arg("--extern"), Arg("left_pad")>>] }

UnitLists == SeqsUpTo(UnitUniverse, MaxUnits)

\* Mutant: no mutual exclusion.
CanLockAlways(m) == TRUE

\* lib.rs:491: self.data.lock() returns once no other thread holds the guard.
CanLock(m) == m = 0

\* lib.rs:485-487: cmd_info(..).unwrap_or_else(|e| panic!(..))
ExecParse(i) ==
    /\ pc = "compile"
    /\ upc[i] = "start"
    /\ LET r == cmd_info(units[i].id, units[i].custom_build, units[i].args)
       IN  IF r.tag = "Ok"
           THEN /\ cmd_info_of' = [cmd_info_of EXCEPT ![i] = r.info]
                /\ upc' = [upc EXCEPT ![i] = "lock"]
           ELSE /\ upc' = [upc EXCEPT ![i] = "panicked"]
                /\ UNCHANGED cmd_info_of
    /\ UNCHANGED <<graph, pc, dependency_names, warnings, relevant_cmd_infos, files,
                   next_cmd, accVars, metadata, opt, outcome, printed, ret,
                   units, mutex, stderr_lines, vec_len, parseVars>>

\* lib.rs:488-491: the guard is taken.
ExecLock(i) ==
    /\ pc = "compile"
    /\ upc[i] = "lock"
    /\ CanLock(mutex)
    /\ mutex' = i
    /\ upc' = [upc EXCEPT ![i] = IF units[i].is_path THEN "push" ELSE "warn"]
    /\ UNCHANGED <<graph, pc, dependency_names, warnings, relevant_cmd_infos, files,
                   next_cmd, accVars, metadata, opt, outcome, printed, ret,
                   units, cmd_info_of, stderr_lines, vec_len, parseVars>>

\* lib.rs:495-497, Vec::push: the length is read ...
ExecPushRead(i) ==
    /\ pc = "compile"
    /\ upc[i] = "push"
    /\ vec_len' = [vec_len EXCEPT ![i] = Len(relevant_cmd_infos)]
    /\ upc' = [upc EXCEPT ![i] = "write"]
    /\ UNCHANGED <<graph, pc, dependency_names, warnings, relevant_cmd_infos, files,
                   next_cmd, accVars, metadata, opt, outcome, printed, ret,
                   units, cmd_info_of, mutex, stderr_lines, parseVars>>

\* ... and the clone is written at that index, the length becoming one more.
ExecPushWrite(i) ==
    /\ pc = "compile"
    /\ upc[i] = "write"
    /\ relevant_cmd_infos' =
          Append(SubSeq(relevant_cmd_infos, 1, vec_len[i]), cmd_info_of[i])
    /\ upc' = [upc EXCEPT ![i] = "warn"]
    /\ UNCHANGED <<graph, pc, dependency_names, warnings, files,
                   next_cmd, accVars, metadata, opt, outcome, printed, ret,
                   units, cmd_info_of, mutex, stderr_lines, vec_len, parseVars>>

\* lib.rs:498-512: the consistency warning, which on_stderr_line may refuse
\* (the callback then returns the error), and the guard is dropped.
ExecWarnUnlock(i) ==
    /\ pc = "compile"
    /\ upc[i] = "warn"
    /\ IF (~cmd_info_of[i].cap_lints_allow) # units[i].is_path
       THEN \E ok \in BOOLEAN :
               /\ stderr_lines' = IF ok THEN stderr_lines \cup {i} ELSE stderr_lines
               /\ upc' = [upc EXCEPT ![i] = IF ok THEN "exec" ELSE "failed"]
       ELSE /\ upc' = [upc EXCEPT ![i] = "exec"]
            /\ UNCHANGED stderr_lines
    /\ mutex' = 0
    /\ UNCHANGED <<graph, pc, dependency_names, warnings, relevant_cmd_infos, files,
                   next_cmd, accVars, metadata, opt, outcome, printed, ret,
                   units, cmd_info_of, vec_len, parseVars>>

\* lib.rs:513-519: rustc runs (with save-analysis for a path package) and
\* succeeds or fails.
ExecRun(i) ==
    /\ pc = "compile"
    /\ upc[i] = "exec"
    /\ \E ok \in BOOLEAN : upc' = [upc EXCEPT ![i] = IF ok THEN "returned" ELSE "failed"]
    /\ UNCHANGED <<graph, pc, dependency_names, warnings, relevant_cmd_infos, files,
                   next_cmd, accVars, metadata, opt, outcome, printed, ret,
                   units, cmd_info_of, mutex, stderr_lines, vec_len, parseVars>>

\* lib.rs:295-311: compile_with_exec returns once every callback has; run
\* takes the guard for the rest of its life, or returns the build's error.
ExecJoin ==
    /\ pc = "compile"
    /\ \A i \in DOMAIN units : upc[i] \in {"returned", "failed"}
    /\ IF \E i \in DOMAIN units : upc[i] = "failed"
       THEN /\ pc' = "error"
            /\ ret' = "Err"
            /\ UNCHANGED <<mutex, accVars>>
       ELSE /\ CanLock(mutex)
            /\ mutex' = -1
            /\ pc' = "match"
            /\ used_normal_dev_dependencies' = {}
            /\ used_build_dependencies' = {}
            /\ normal_dependencies' = InitialDependencies(dependency_names, Normal)
            /\ dev_dependencies' = InitialDependencies(dependency_names, Development)
            /\ build_dependencies' = InitialDependencies(dependency_names, Build)
            /\ UNCHANGED ret
    /\ UNCHANGED <<graph, dependency_names, warnings, relevant_cmd_infos, files,
                   next_cmd, metadata, opt, outcome, printed,
                   units, upc, cmd_info_of, stderr_lines, vec_len, parseVars>>

\* A workspace without dependencies, at the call of compile_with_exec.
InitExec ==
    /\ graph = {}
    /\ pc = "compile"
    /\ RunStart
    /\ ParseIdle
    /\ units \in UnitLists
    /\ upc = [i \in DOMAIN units |-> "start"]
    /\ cmd_info_of = [i \in DOMAIN units |-> cmd_info("app", FALSE, << >>).info]
    /\ mutex = 0
    /\ stderr_lines = {}
    /\ vec_len = [i \in DOMAIN units |-> 0]

NextExec ==
    \/ \E i \in DOMAIN units : ExecParse(i)
    \/ \E i \in DOMAIN units : ExecLock(i)
    \/ \E i \in DOMAIN units : ExecPushRead(i)
    \/ \E i \in DOMAIN units : ExecPushWrite(i)
    \/ \E i \in DOMAIN units : ExecWarnUnlock(i)
    \/ \E i \in DOMAIN units : ExecRun(i)
    \/ ExecJoin

SpecExec == InitExec /\ [][NextExec]_vars

-----------------------------------------------------------------------------
(* cmd_info and the callback's use of it, on arbitrary argument lists.      *)

ArgAlphabet ==
    { Arg("--extern"), Arg("--crate-name"), Arg("--out-dir"), Arg("-C"),
      Arg("v"), KeyValue("extra-filename", "s"), NonUtf8 }

\* lib.rs:485-497: a callback for a unit of a path package, alone: the
\* arguments are parsed and the CmdInfo pushed, or the parse fails.
ExecOnArgs ==
    /\ pc = "compile"
    /\ parsed.tag = "None"
    /\ parsed' = cmd_info("app", FALSE, args)
    /\ relevant_cmd_infos' =
          IF parsed'.tag = "Ok" THEN Append(relevant_cmd_infos, parsed'.info)
          ELSE relevant_cmd_infos
    /\ UNCHANGED <<graph, pc, dependency_names, warnings, files, next_cmd, accVars,
                   metadata, opt, outcome, printed, ret, execVars, args>>

InitParse ==
    /\ graph = {}
    /\ pc = "compile"
    /\ RunStart
    /\ ExecIdle
    /\ args \in SeqsUpTo(ArgAlphabet, MaxArgs)
    /\ parsed = [cmd_info("app", FALSE, << >>) EXCEPT !.tag = "None"]

NextParse == ExecOnArgs

SpecParse == InitParse /\ [][NextParse]_vars

-----------------------------------------------------------------------------
(* Vocabulary of the properties, defined from the inputs of the run (the    *)
(* graph, the records, the files, the metadata), not from its accumulators. *)

\* Outcome.unused_deps[P] under kind K; empty when P has no entry.
OutcomeSet(P, K) ==
    IF P \in DOMAIN outcome.unused_deps
    THEN unused_deps_of(outcome.unused_deps[P], K) ELSE {}

\* IgnoreList[P][K]
IgnoreList(P, K) == IF metadata[P].present THEN metadata[P].ignore[K] ELSE {}

\* The declared names of P's edges of kind K: all, to packages with a library
\* target, to packages without.
EdgeNames(P, K) == { e.name_in_toml : e \in Deps(graph, P, K) }
LibEdges(P, K) == { e \in Deps(graph, P, K) : HasLib(e.to) }
NonLibEdgeNames(P, K) ==
    { e.name_in_toml : e \in { x \in Deps(graph, P, K) : ~HasLib(x.to) } }

\* The records of package P the matcher has gone through.
ProcessedRecords(P) ==
    { i \in DOMAIN relevant_cmd_infos :
        i < next_cmd /\ relevant_cmd_infos[i].pkg = P }

ExternAliases(i) ==
    { relevant_cmd_infos[i].externs[j][1] : j \in DOMAIN relevant_cmd_infos[i].externs }

ListedCrates(i) ==
    files[get_save_analysis_path(relevant_cmd_infos[i])].external_crates

\* A save-analysis file that is missing, unreadable or not an analysis.
Unusable(file) == file \in {Missing, Garbage}

\* The kinds that share a used accumulator with K.
AccumulatorGroup(K) == IF K = Build THEN {Build} ELSE {Normal, Development}

\* Names of P a processed artifact gives evidence for, in K's accumulator.
UsedByArtifacts(P, K) ==
    { e.name_in_toml :
        e \in { x \in UNION { LibEdges(P, G) : G \in AccumulatorGroup(K) } :
                  \E i \in ProcessedRecords(P) :
                      lib_true_snakecased_name(x.to) \in ListedCrates(i) } }

\* by_alias of P and K, and the library edges of P and K that go by alias a.
AliasTable(P, K) == dependency_names[P][K].by_extern_crate_name
EdgesWithAlias(P, K, a) == { e \in LibEdges(P, K) : ExternCrateName(e.to) = a }

\* The names by_alias of P and K gives for the aliases a processed invocation
\* of P was given with --extern.
PassedAsExtern(P, K) ==
    { AliasTable(P, K)[a] :
        a \in UNION { ExternAliases(i) : i \in ProcessedRecords(P) }
                \cap DOMAIN AliasTable(P, K) }

UsedNames(P, K) == { d \in NamesInToml : <<P, d>> \in UsedDependenciesOf(K) }
DeclaredNames(P, K) == { d \in NamesInToml : <<P, d>> \in DependenciesOf(K) }

Matching == pc \in {"match", "done"}
Reported == pc = "done"

-----------------------------------------------------------------------------
\* C1 (as claimed): the reported unused set of every member and kind is the
\* names of ALL its dependency edges of that kind minus the used ones (minus
\* the ignored ones), whatever invocations were recorded.
C1_AllEdgesDeclared ==
    Reported =>
        \A P \in Members, K \in Kinds :
            OutcomeSet(P, K) = (EdgeNames(P, K) \ UsedNames(P, K)) \ IgnoreList(P, K)

\* C1 (amended): the declared set of a member and kind is its non-library
\* names plus the names by_alias gives for the aliases a recorded invocation
\* of the member passed with --extern (by_alias holding, for each alias of a
\* library edge, the name of one edge with that alias); the reported set is
\* that set minus the used and the ignored names, so a library dependency
\* passed on no recorded invocation is never reported.
C1_DeclaredFromInvocations ==
    Reported =>
        \A P \in Members, K \in Kinds :
            /\ DOMAIN AliasTable(P, K) = { ExternCrateName(e.to) : e \in LibEdges(P, K) }
            /\ \A a \in DOMAIN AliasTable(P, K) :
                  AliasTable(P, K)[a] \in { e.name_in_toml : e \in EdgesWithAlias(P, K, a) }
            /\ DeclaredNames(P, K) = NonLibEdgeNames(P, K) \cup PassedAsExtern(P, K)
            /\ OutcomeSet(P, K) =
                  ((NonLibEdgeNames(P, K) \cup PassedAsExtern(P, K)) \ UsedNames(P, K))
                      \ IgnoreList(P, K)
            /\ \A d \in EdgeNames(P, K) \ (NonLibEdgeNames(P, K) \cup PassedAsExtern(P, K)) :
                  d \notin OutcomeSet(P, K)

\* A Normal library dependency, listed in no artifact and passed on no
\* invocation of its package, after a run that went through an invocation of
\* the package: nothing is reported and the run succeeds with code 0.
C1_Witness ==
    /\ Reported
    /\ \E e \in LibEdges("app", Normal) :
          /\ graph = {e}
          /\ ProcessedRecords("app") # {}
          /\ e.name_in_toml \notin UsedNames("app", Normal)
          /\ e.name_in_toml \notin PassedAsExtern("app", Normal)
          /\ e.name_in_toml \notin IgnoreList("app", Normal)
          /\ OutcomeSet("app", Normal) = {}
    /\ outcome.success
    /\ ret = "Ok(0)"

-----------------------------------------------------------------------------
\* C2 (as claimed): an --extern alias of a recorded invocation that is a key
\* of by_alias marks the dependency used, so it is never reported.
C2_AliasMarksUsed ==
    Reported =>
        \A P \in Members, K \in Kinds :
            \A d \in PassedAsExtern(P, K) :
                /\ <<P, d>> \in UsedDependenciesOf(K)
                /\ d \notin OutcomeSet(P, K)

\* C2 (amended): an --extern alias that is a key of by_alias puts the
\* dependency in the declared set of that kind and never in a used set: the
\* used sets hold exactly the names the artifacts give evidence for, and the
\* dependency is reported unless such evidence exists or it is ignored.
C2_AliasDeclares ==
    Matching =>
        \A P \in Members, K \in Kinds :
            /\ UsedNames(P, K) = UsedByArtifacts(P, K)
            /\ \A d \in PassedAsExtern(P, K) :
                  /\ <<P, d>> \in DependenciesOf(K)
                  /\ Reported =>
                        (d \in OutcomeSet(P, K)
                            <=> (d \notin UsedByArtifacts(P, K) /\ d \notin IgnoreList(P, K)))

\* A library dependency passed with --extern whose library no artifact
\* lists: it is reported and the code is 1.
C2_Witness ==
    /\ Reported
    /\ \E d \in PassedAsExtern("app", Normal) :
          /\ d \notin UsedByArtifacts("app", Normal)
          /\ d \in OutcomeSet("app", Normal)
    /\ ~outcome.success
    /\ ret = "Ok(1)"

-----------------------------------------------------------------------------
\* C3 (as claimed): every non-library name of a member and kind is in the
\* Outcome under that kind, whatever the invocations and artifacts.
C3_NonLibAlwaysReported ==
    Reported =>
        \A P \in Members, K \in Kinds :
            \A d \in dependency_names[P][K].non_lib : d \in OutcomeSet(P, K)

\* C3 (amended): no matcher step takes a non-library name out of the declared
\* set, and in a run that reaches the reporter it is in the Outcome under its
\* kind unless it is in IgnoreList[P][K] or the same name is also a library
\* dependency's (of a kind with the same used accumulator) that an artifact
\* marked used.
C3_NonLibReportedUnlessIgnored ==
    Matching =>
        \A P \in Members, K \in Kinds :
            \A d \in NonLibEdgeNames(P, K) :
                /\ d \in dependency_names[P][K].non_lib
                /\ <<P, d>> \in DependenciesOf(K)
                /\ Reported =>
                        (d \in OutcomeSet(P, K)
                            <=> (d \notin IgnoreList(P, K) /\ d \notin UsedByArtifacts(P, K)))

\* A build dependency without a library of a package whose invocation, with
\* an artifact listing crates, was matched: it is reported under build.
C3_Witness ==
    /\ Reported
    /\ "cc-helper" \in NonLibEdgeNames("tool", Build)
    /\ \E i \in ProcessedRecords("tool") : <<"left", "_", "pad">> \in ListedCrates(i)
    /\ "cc-helper" \in OutcomeSet("tool", Build)
    /\ ret = "Ok(1)"

-----------------------------------------------------------------------------
\* C4: a declared and not used name is in the Outcome iff it is not in the
\* ignore list of its package and kind; the accumulators are what the inputs
\* of the matcher make them, whatever the ignore lists; when every candidate
\* is ignored the run succeeds with code 0.
C4_IgnoreSuppression ==
    Reported =>
        /\ \A P \in Members, K \in Kinds :
              /\ \A d \in DeclaredNames(P, K) \ UsedNames(P, K) :
                    d \in OutcomeSet(P, K) <=> d \notin IgnoreList(P, K)
              /\ DeclaredNames(P, K) = NonLibEdgeNames(P, K) \cup PassedAsExtern(P, K)
              /\ UsedNames(P, K) = UsedByArtifacts(P, K)
        /\ (\A P \in Members, K \in Kinds :
               DeclaredNames(P, K) \ UsedNames(P, K) \subseteq IgnoreList(P, K))
              => (outcome.success /\ ret = "Ok(0)")

\* The only candidate is ignored under its kind while the package is the one
\* holding the entry: nothing is reported, the package keeps an (empty)
\* entry, and the code is 0.
C4_Witness ==
    /\ Reported
    /\ \E P \in Members, K \in Kinds :
          /\ DeclaredNames(P, K) \ UsedNames(P, K) # {}
          /\ DeclaredNames(P, K) \ UsedNames(P, K) \subseteq IgnoreList(P, K)
          /\ P \in DOMAIN outcome.unused_deps
          /\ OutcomeSet(P, K) = {}
    /\ outcome.success
    /\ ret = "Ok(0)"

-----------------------------------------------------------------------------
\* C5: in every run that reaches the reporter, success holds iff the normal,
\* development and build sets of every package entry are empty; the code
\* returned is 0 iff success and 1 otherwise (the process exits with it), and
\* the error path never carries findings: once an Outcome exists an error is
\* returned only for a failed write to stdout.
C5_SuccessAndExitCode ==
    /\ Reported =>
          /\ outcome.built /\ printed = "yes"
          /\ outcome.success <=>
                (\A P \in DOMAIN outcome.unused_deps : \A K \in Kinds :
                    unused_deps_of(outcome.unused_deps[P], K) = {})
          /\ ret = "Ok(0)" <=> outcome.success
          /\ ret = "Ok(1)" <=> ~outcome.success
          /\ ProcessResult(ret) = (IF outcome.success THEN "exit 0" ELSE "exit 1")
    /\ ret = "Err" => (outcome.built <=> printed = "failed")
    /\ printed = "failed" => ret = "Err"

\* Only a build dependency is unused: success is false and the code is 1.
C5_Witness ==
    /\ Reported
    /\ \E P \in DOMAIN outcome.unused_deps :
          /\ outcome.unused_deps[P].normal = {}
          /\ outcome.unused_deps[P].development = {}
          /\ outcome.unused_deps[P].build # {}
    /\ ~outcome.success
    /\ ProcessResult(ret) = "exit 1"

-----------------------------------------------------------------------------
\* C6: when the save-analysis file of a recorded invocation, at any position
\* of the list and of any path package, is missing or does not parse, the
\* matcher never gets past that record: no Outcome is built or printed, and
\* the run cannot end with code 0 or 1: at that record the aggregator cannot
\* start, and the run ends with an error.
C6_UnreadableArtifactIsFatal ==
    \A i \in DOMAIN relevant_cmd_infos :
        Unusable(files[get_save_analysis_path(relevant_cmd_infos[i])]) =>
            /\ next_cmd <= i
            /\ pc \in {"match", "error"}
            /\ ~outcome.built /\ printed = "no"
            /\ ProcessResult(ret) \notin {"exit 0", "exit 1"}
            /\ (pc = "error" => ret = "Err")
            /\ (pc = "match" /\ next_cmd = i) => ~ENABLED Aggregate

\* The second record's file is unreadable, the first was matched: the run
\* has ended with an error.
C6_Witness ==
    /\ pc = "error"
    /\ ret = "Err"
    /\ Len(relevant_cmd_infos) = 2
    /\ next_cmd = 2
    /\ relevant_cmd_infos[2].pkg = "vendored"
    /\ Unusable(files[get_save_analysis_path(relevant_cmd_infos[2])])
    /\ ~outcome.built

-----------------------------------------------------------------------------
\* The names of member P that library name L is mapped to within a group of
\* kinds taken as a union.
Colliding(P, group, L) ==
    UNION { dependency_names[P][K].by_lib_true_snakecased_name[L] :
              K \in { G \in group :
                        L \in DOMAIN dependency_names[P][G].by_lib_true_snakecased_name } }

\* C7 (as claimed): for each member, within {Normal, Development} taken as a
\* union and within {Build}, every library name mapped to more than one
\* name_in_toml causes a warning that lists all the colliding names.
C7_AmbiguityWarned ==
    pc # "names" =>
        \A P \in Members, L \in LibNames :
            /\ Cardinality(Colliding(P, {Normal, Development}, L)) > 1
                  => /\ warnings[P].emitted
                     /\ Colliding(P, {Normal, Development}, L)
                            \subseteq DOMAIN warnings[P].normal_dev
            /\ Cardinality(Colliding(P, {Build}, L)) > 1
                  => /\ warnings[P].emitted
                     /\ Colliding(P, {Build}, L) \subseteq DOMAIN warnings[P].build

-----------------------------------------------------------------------------
\* C8: when the artifact of a matched invocation of member P lists library
\* name L, every name under L in by_library_name of every kind is marked used
\* for P in that kind's accumulator, and none of them is reported; a name the
\* ambiguity warning lists is reported by the same rule as any other.
C8_AllCandidatesUsed ==
    Matching =>
        \A P \in Members, K \in Kinds :
            /\ \A i \in ProcessedRecords(P) :
                  \A L \in ListedCrates(i) \cap
                            DOMAIN dependency_names[P][K].by_lib_true_snakecased_name :
                      \A d \in dependency_names[P][K].by_lib_true_snakecased_name[L] :
                          /\ <<P, d>> \in UsedDependenciesOf(K)
                          /\ Reported => d \notin OutcomeSet(P, K)
            /\ Reported =>
                  \A d \in DOMAIN warnings[P].normal_dev \cup DOMAIN warnings[P].build :
                      d \in OutcomeSet(P, K)
                        <=> /\ <<P, d>> \in DependenciesOf(K) \ UsedDependenciesOf(K)
                            /\ d \notin IgnoreList(P, K)

\* Two normal dependencies with the same library name, both passed with
\* --extern, and an artifact listing that name: the warning was given, both
\* are marked used and neither is reported.
C8_Witness ==
    /\ Reported
    /\ warnings["app"].emitted
    /\ DeclaredNames("app", Normal) = {"left-pad", "lp-fork"}
    /\ \E i \in ProcessedRecords("app") : <<"left", "_", "pad">> \in ListedCrates(i)
    /\ UsedNames("app", Normal) = {"left-pad", "lp-fork"}
    /\ OutcomeSet("app", Normal) = {}
    /\ ret = "Ok(0)"

-----------------------------------------------------------------------------
\* The CmdInfo a unit's arguments describe, and how often it is in the list.
InfoOfUnit(i) == cmd_info(units[i].id, units[i].custom_build, units[i].args).info
LocalUnits == { i \in DOMAIN units : units[i].is_path }
TimesRecorded(info) ==
    Cardinality({ j \in DOMAIN relevant_cmd_infos : relevant_cmd_infos[j] = info })
AllCallbacksReturned == \A i \in DOMAIN units : upc[i] \in {"returned", "failed"}

\* C9: under every interleaving of the callbacks, once all have returned the
\* list holds exactly one record, the unit's own, for each callback of a path
\* package and nothing else; at most one callback is between taking and
\* dropping the guard; and the matcher gets the list only after every
\* callback has returned, holding the guard.
C9_OneRecordPerLocalUnit ==
    /\ AllCallbacksReturned =>
          /\ Len(relevant_cmd_infos) = Cardinality(LocalUnits)
          /\ \A i \in DOMAIN units :
                TimesRecorded(InfoOfUnit(i)) =
                    Cardinality({ j \in LocalUnits : InfoOfUnit(j) = InfoOfUnit(i) })
    /\ Cardinality({ i \in DOMAIN units : upc[i] \in {"push", "write", "warn"} }) <= 1
    /\ pc = "match" =>
          /\ \A i \in DOMAIN units : upc[i] = "returned"
          /\ mutex = -1

\* Two callbacks of path packages have returned and run holds the list: both
\* records are in it.
C9_Witness ==
    /\ pc = "match"
    /\ Len(units) = 2
    /\ LocalUnits = {1, 2}
    /\ units[1] # units[2]
    /\ AllCallbacksReturned
    /\ Len(relevant_cmd_infos) = 2
    /\ relevant_cmd_infos[1] = InfoOfUnit(2)
    /\ relevant_cmd_infos[2] = InfoOfUnit(1)

-----------------------------------------------------------------------------
(* What an argument list determines, read off the list itself: the          *)
(* positions at which the parser looks for a flag, and the values following *)
(* the flags.                                                               *)
ValueFlags ==
    { Arg("--extern"), Arg("--crate-name"), Arg("--crate-type"),
      Arg("--cap-lints"), Arg("--out-dir"), Arg("-C") }

RECURSIVE IsFlagPosition(_, _)
IsFlagPosition(as, i) ==
    \/ i = 1
    \/ i > 1 /\ IsFlagPosition(as, i - 1) /\ as[i - 1] \notin ValueFlags
    \/ i > 2 /\ IsFlagPosition(as, i - 2) /\ as[i - 2] \in ValueFlags

ValuesOf(as, flag) ==
    { as[i + 1] : i \in { j \in 1..(Len(as) - 1) : IsFlagPosition(as, j) /\ as[j] = flag } }

HasEquals(a) == \E i \in DOMAIN a : a[i] = "="

\* A value the parser cannot take: not UTF-8, or an --extern without "=".
Malformed(as) ==
    \/ \E f \in ValueFlags \ {Arg("--cap-lints")} : \E v \in ValuesOf(as, f) : ~IsUtf8(v)
    \/ \E v \in ValuesOf(as, Arg("--extern")) : ~HasEquals(v)

\* Crate name, extra filename and output directory can be determined.
Determinable(as) ==
    /\ ValuesOf(as, Arg("--crate-name")) # {}
    /\ ValuesOf(as, Arg("--out-dir")) # {}
    /\ \E v \in ValuesOf(as, Arg("-C")) :
          Len(v) >= 2 /\ v[1] = "extra-filename" /\ v[2] = "="

\* C10 (as claimed): the parse yields a record iff crate name, extra filename
\* and output directory can be determined, and otherwise fails with an error
\* value, no record being appended: one of these two outcomes for every
\* argument list.
C10_RecordOrError ==
    parsed.tag # "None" =>
        /\ parsed.tag = "Ok" <=> Determinable(args)
        /\ parsed.tag # "Ok" => parsed.tag = "Err"
        /\ parsed.tag = "Ok" => relevant_cmd_infos = <<parsed.info>>
        /\ parsed.tag # "Ok" => relevant_cmd_infos = << >>

\* C10 (amended): the parse ends in one of three outcomes. It panics iff a
\* value of --extern, --crate-name, --crate-type, --out-dir or -C is not
\* UTF-8 or a value of --extern has no "="; otherwise it yields a record iff
\* crate name, extra filename and output directory can be determined, and an
\* error value if not. A missing crate type is "bin". A record is appended
\* only in the first case.
C10_RecordErrorOrPanic ==
    parsed.tag # "None" =>
        /\ parsed.tag \in {"Ok", "Err", "Panic"}
        /\ parsed.tag = "Panic" <=> Malformed(args)
        /\ parsed.tag = "Ok" <=> (Determinable(args) /\ ~Malformed(args))
        /\ parsed.tag = "Err" <=> (~Determinable(args) /\ ~Malformed(args))
        /\ parsed.tag = "Ok" =>
              /\ relevant_cmd_infos = <<parsed.info>>
              /\ ValuesOf(args, Arg("--crate-type")) = {}
                    => parsed.info.crate_type = Arg("bin")
        /\ parsed.tag # "Ok" => relevant_cmd_infos = << >>

\* Crate name and extra filename are given, the output directory is not:
\* the error value, and no record.
C10_Witness ==
    /\ parsed.tag = "Err"
    /\ parsed.msg = "outdir needed"
    /\ ValuesOf(args, Arg("--crate-name")) # {}
    /\ ~Malformed(args)
    /\ relevant_cmd_infos = << >>
-----------------------------------------------------------------------------
\* The paragraphs a note can have, in the order they are written.
NoteParagraphs ==
    <<"other targets", "enable --all-targets", "non-library packages",
      "false-positive, doc-tests, ignore">>

Paragraphs(note) == { note[i] : i \in DOMAIN note }

SomeNonLibEdge == \E P \in Members, K \in Kinds : NonLibEdgeNames(P, K) # {}

\* C11 (as claimed): a failing Outcome has a note and a successful one has
\* none, and the note of a failing run covers all three sources of false
\* positives (other targets, non-library dependencies, doc-tests), whatever
\* the options and the dependency tables.
C11_NoteFixedText ==
    Reported =>
        /\ outcome.success <=> outcome.note = << >>
        /\ ~outcome.success =>
              {"other targets", "non-library packages",
               "false-positive, doc-tests, ignore"} \subseteq Paragraphs(outcome.note)

\* C11 (amended): a failing Outcome has a note and a successful one has none;
\* the note always ends with the paragraph on false positives, doc-tests and
\* the ignore list; it has the paragraph on other targets iff --all-targets
\* is not given, with the hint to enable it iff no target selection is given
\* either; and the paragraph on non-library packages iff some member has a
\* dependency without a library target.
C11_NoteFromOptionsAndTables ==
    Reported =>
        /\ outcome.success <=> outcome.note = << >>
        /\ ~outcome.success =>
              LET wanted(p) ==
                    CASE p = "other targets" -> ~opt.all_targets
                      [] p = "enable --all-targets" ->
                            ~opt.all_targets /\ ~opt.target_filter
                      [] p = "non-library packages" -> SomeNonLibEdge
                      [] OTHER -> TRUE
              IN  outcome.note = SelectSeq(NoteParagraphs, wanted)

\* A failing run with --all-targets over a graph without non-library
\* dependencies: the note is the last paragraph alone.
C11_Witness ==
    /\ Reported
    /\ ~outcome.success
    /\ opt.all_targets
    /\ ~SomeNonLibEdge
    /\ outcome.note = <<"false-positive, doc-tests, ignore">>
-----------------------------------------------------------------------------
\* The accumulators before the loop, lib.rs:298-311.
InitialAccumulators ==
    [used_normal_dev_dependencies |-> {},
     used_build_dependencies      |-> {},
     normal_dependencies          |-> InitialDependencies(dependency_names, Normal),
     dev_dependencies             |-> InitialDependencies(dependency_names, Development),
     build_dependencies           |-> InitialDependencies(dependency_names, Build)]

\* The whole loop of lib.rs:313-359 over a list of records whose artifacts
\* all load, from given accumulators.
RECURSIVE MatchAll(_, _, _)
MatchAll(recs, i, acc) ==
    IF i > Len(recs) THEN acc
    ELSE MatchAll(recs, i + 1,
                  MatchOne(dependency_names, acc, recs[i],
                           get_save_analysis(files, recs[i])))

\* The orders in which the recorded invocations can be gone through.
Orders(recs) ==
    { [i \in DOMAIN recs |-> recs[f[i]]] :
        f \in { g \in [DOMAIN recs -> DOMAIN recs] :
                  \A i, j \in DOMAIN recs : g[i] = g[j] => i = j } }

MatcherDone == Matching /\ next_cmd > Len(relevant_cmd_infos)

\* C12: when the matcher has gone through all recorded invocations, its used
\* (and declared) sets are those any other processing order of the same
\* invocations gives, and going through the same invocations once more
\* leaves them unchanged; the Outcome is the one built from these sets.
C12_MatcherOrderIndependent ==
    MatcherDone =>
        /\ \A recs \in Orders(relevant_cmd_infos) :
              MatchAll(recs, 1, InitialAccumulators) = Accumulators
        /\ MatchAll(relevant_cmd_infos, 1, Accumulators) = Accumulators
        /\ \A recs \in Orders(relevant_cmd_infos) :
              MatchAll(recs, 1, Accumulators) = Accumulators
        /\ Reported =>
              outcome.unused_deps =
                  [id \in DOMAIN outcome.unused_deps |-> OutcomeUnusedDepsOf(metadata, id)]

\* Two invocations of two members were matched, each giving evidence for a
\* dependency of its own package: both are in the used set.
C12_Witness ==
    /\ MatcherDone
    /\ Len(relevant_cmd_infos) = 2
    /\ \E d1, d2 \in NamesInToml :
          /\ <<relevant_cmd_infos[1].pkg, d1>> \in used_normal_dev_dependencies
          /\ <<relevant_cmd_infos[2].pkg, d2>> \in used_normal_dev_dependencies
          /\ relevant_cmd_infos[1].pkg # relevant_cmd_infos[2].pkg
    /\ Cardinality(Orders(relevant_cmd_infos)) = 2
-----------------------------------------------------------------------------
\* The metadata of member m has a cargo-udeps table that does not parse.
Unparseable(m) == metadata[m].present /\ ~metadata[m].parses

\* Member m has an entry in a declared set: a non-library dependency, or a
\* library dependency whose alias a recorded invocation passed.
HasDeclared(m) ==
    \E K \in Kinds : NonLibEdgeNames(m, K) \cup PassedAsExtern(m, K) # {}

\* C13 (as claimed): an unparseable ignore configuration of any member makes
\* the run end in an error, with no Outcome printed, whether or not the
\* member has a declared or unused dependency.
C13_BadMetadataAlwaysFatal ==
    \A m \in Members :
        Unparseable(m) =>
            /\ pc = "error"
            /\ ProcessResult(ret) = "error"
            /\ printed = "no"

\* C13 (amended): an unparseable ignore configuration of a member makes the
\* run end in an error, no Outcome being built or printed, iff the member has
\* an entry in a declared set, used or not; the configuration of a member
\* without one is never parsed and the run reports as without it.
C13_BadMetadataFatalIfDeclared ==
    \A m \in Members :
        Unparseable(m) =>
            IF HasDeclared(m)
            THEN /\ pc = "error"
                 /\ ProcessResult(ret) = "error"
                 /\ ~outcome.built
                 /\ printed = "no"
            ELSE /\ outcome.built
                 /\ printed # "no"
                 /\ m \notin DOMAIN outcome.unused_deps
                 /\ printed = "yes" =>
                       (Reported /\ ProcessResult(ret) \in {"exit 0", "exit 1"})

\* The configuration of app does not parse and app's only declared
\* dependency is used: the run still ends in an error.
C13_Witness ==
    /\ Unparseable("app")
    /\ HasDeclared("app")
    /\ \A K \in Kinds : DeclaredNames("app", K) \subseteq UsedNames("app", K)
    /\ pc = "error"
    /\ ProcessResult(ret) = "error"
    /\ printed = "no"
-----------------------------------------------------------------------------
\* Where a declared name is found in the NameTable of P and K.
InByAlias(P, K, d) == \E a \in DOMAIN AliasTable(P, K) : AliasTable(P, K)[a] = d
InByLibraryName(P, K, d) ==
    \E l \in DOMAIN dependency_names[P][K].by_lib_true_snakecased_name :
        d \in dependency_names[P][K].by_lib_true_snakecased_name[l]
InNonLibrary(P, K, d) == d \in dependency_names[P][K].non_lib

NamesBuilt == pc # "names"

\* C14: once the tables of a member are built, the name of each of its edges
\* of kind K is a value of by_alias and of by_library_name of K exactly when
\* the target package has a library target, and in non_library of K exactly
\* when it has none: never in both groups and never in neither.
C14_NameTablePartition ==
    NamesBuilt =>
        \A P \in Members, K \in Kinds : \A e \in Deps(graph, P, K) :
            LET d == e.name_in_toml
            IN  /\ HasLib(e.to) <=> (InByAlias(P, K, d) /\ InByLibraryName(P, K, d))
                /\ ~HasLib(e.to) <=> InNonLibrary(P, K, d)
                /\ ~((InByAlias(P, K, d) \/ InByLibraryName(P, K, d)) /\ InNonLibrary(P, K, d))
                /\ (InByAlias(P, K, d) /\ InByLibraryName(P, K, d)) \/ InNonLibrary(P, K, d)
-----------------------------------------------------------------------------
\* Names of P's library edges of kind K whose library name a processed
\* artifact of P lists: the usage found through the table of K.
EvidenceIn(P, K) ==
    { e.name_in_toml :
        e \in { x \in LibEdges(P, K) :
                  \E i \in ProcessedRecords(P) :
                      lib_true_snakecased_name(x.to) \in ListedCrates(i) } }

NamesOf(P, pairs) == { d \in NamesInToml : <<P, d>> \in pairs }

=============================================================================
